---- MODULE Spec2Model ----
\* DollarNow resilient rate fetcher (src/src/index.ts): the cache-aside
\* request handler, the ordered provider fallback and the two provider
\* adapters, as a state machine over concurrently handled requests.
EXTENDS Integers, Sequences, FiniteSets, TLC

VARIABLES
    cache,      \* caches.default: request identity -> stored response, or NoResponse
    req,        \* one record per request slot: the handler's locals and position
    deferred,   \* ctx.waitUntil: request slot -> the cache.put promise it was handed
    probe       \* one fetcher's normalisation loop, run on its own over a body

vars == <<cache, req, deferred, probe>>

------------------------------------------------------------------------
\* Configuration

FIAT_SYMBOLS ==
    {"BRL", "EUR", "JPY", "GBP", "AUD", "CAD", "CHF", "CNY", "HKD", "NZD",
     "SEK", "INR", "PKR", "IDR", "MXN"}

ASSET_SYMBOLS == {"BTC", "XAU", "XAG", "XBR"}

\* apiFetchers, in declared order: 1 = Awesome API, 2 = Wise API
apiFetchers == <<"awesome", "wise">>

------------------------------------------------------------------------
\* Bounds of the model

\* longest provider response body (number of entries) that is explored
MaxItems == 2

\* request slots handled concurrently, and the request identities they carry
Reqs == {"r1", "r2"}
Keys == {"k1"}

\* values of Math.floor(Date.now() / 1000) that are read
Times == {1, 2}

------------------------------------------------------------------------
\* JavaScript values held by a rate mapping.  A number is the exact
\* rational n/d in lowest terms with d > 0.

Num(n, d) == [t |-> "num", n |-> n, d |-> d]
NaN == [t |-> "nan", n |-> 0, d |-> 1]
Undefined == [t |-> "undef", n |-> 0, d |-> 1]
Null == [t |-> "null", n |-> 0, d |-> 1]
StrAbc == [t |-> "str", n |-> 0, d |-> 1]

Abs(x) == IF x < 0 THEN -x ELSE x

RECURSIVE Gcd(_, _)
Gcd(a, b) == IF b = 0 THEN a ELSE Gcd(b, a % b)

\* the rational n/d (d # 0) in lowest terms
Rat(n, d) ==
    LET g == Gcd(Abs(n), Abs(d))
        s == IF d < 0 THEN -1 ELSE 1
    IN  Num((s * n) \div g, (s * d) \div g)

IsNumber(v) == v.t = "num"

------------------------------------------------------------------------
\* parseFloat: a string is a sequence of characters.  Leading white space
\* is skipped, then the longest prefix [sign] digits [. digits] is read
\* and whatever follows is ignored; no digit at all gives NaN.

DigitVal(c) ==
    CASE c = "0" -> 0 [] c = "1" -> 1 [] c = "2" -> 2 [] c = "3" -> 3
      [] c = "4" -> 4 [] c = "5" -> 5 [] c = "6" -> 6 [] c = "7" -> 7
      [] c = "8" -> 8 [] c = "9" -> 9 [] OTHER -> -1

IsDigit(c) == DigitVal(c) >= 0

RECURSIVE SkipSpace(_)
SkipSpace(s) ==
    IF s # <<>> /\ Head(s) = " " THEN SkipSpace(Tail(s)) ELSE s

\* number of leading digits of s
RECURSIVE DigitRun(_)
DigitRun(s) ==
    IF s # <<>> /\ IsDigit(Head(s)) THEN 1 + DigitRun(Tail(s)) ELSE 0

\* value of the first k characters of s, all digits, read after acc
RECURSIVE DigitsValue(_, _, _)
DigitsValue(s, k, acc) ==
    IF k = 0 THEN acc
    ELSE DigitsValue(Tail(s), k - 1, 10 * acc + DigitVal(Head(s)))

RECURSIVE Pow10(_)
Pow10(k) == IF k = 0 THEN 1 ELSE 10 * Pow10(k - 1)

Drop(s, k) == SubSeq(s, k + 1, Len(s))

parseFloat(str) ==
    LET s0 == SkipSpace(str)
        signed == s0 # <<>> /\ Head(s0) \in {"-", "+"}
        sign == IF s0 # <<>> /\ Head(s0) = "-" THEN -1 ELSE 1
        s1 == IF signed THEN Tail(s0) ELSE s0
        ni == DigitRun(s1)
        s2 == Drop(s1, ni)
        dot == s2 # <<>> /\ Head(s2) = "."
        s3 == IF dot THEN Tail(s2) ELSE s2
        nf == IF dot THEN DigitRun(s3) ELSE 0
        whole == DigitsValue(s1, ni, 0)
        frac == DigitsValue(s3, nf, 0)
    IN  IF ni + nf = 0 THEN NaN
        ELSE Rat(sign * (whole * Pow10(nf) + frac), Pow10(nf))

isNaN(v) == v.t = "nan"

------------------------------------------------------------------------
\* Rate mappings: a JavaScript object as a function from its own keys

EmptyRates == [k \in {} |-> NaN]

\* rates[key] = value
SetRate(rates, key, value) ==
    [k \in (DOMAIN rates) \cup {key} |-> IF k = key THEN value ELSE rates[k]]

\* Object.keys(rates).length
KeyCount(rates) == Cardinality(DOMAIN rates)

------------------------------------------------------------------------
\* Adapter 1, Awesome API: the loop over Object.values(data)

AwesomeKey(item) == IF item.code = "USD" THEN item.codein ELSE item.code

AwesomeStep(rates, item) ==
    LET value == parseFloat(item.bid)
    IN  IF isNaN(value) THEN rates
        ELSE SetRate(rates, AwesomeKey(item), value)

RECURSIVE AwesomeLoop(_, _)
AwesomeLoop(rates, data) ==
    IF data = <<>> THEN rates
    ELSE AwesomeLoop(AwesomeStep(rates, Head(data)), Tail(data))

AwesomeRates(data) == AwesomeLoop(EmptyRates, data)

\* Adapter 2, Wise API: the loop over the returned list

WiseStep(rates, rateInfo) ==
    IF rateInfo.target \in FIAT_SYMBOLS
    THEN SetRate(rates, rateInfo.target, rateInfo.rate)
    ELSE rates

RECURSIVE WiseLoop(_, _)
WiseLoop(rates, data) ==
    IF data = <<>> THEN rates
    ELSE WiseLoop(WiseStep(rates, Head(data)), Tail(data))

WiseRates(data) == WiseLoop(EmptyRates, data)

\* the mapping fetcher i builds from a parsed response body
AdapterRates(i, data) ==
    IF apiFetchers[i] = "awesome" THEN AwesomeRates(data) ELSE WiseRates(data)

------------------------------------------------------------------------
\* Provider response bodies that are explored

\* entries of an Awesome API body: pair code/codein, bid text, timestamp
AwesomeItems ==
    { [code |-> "USD", codein |-> "BRL", bid |-> <<"5">>, timestamp |-> 3],
      [code |-> "BTC", codein |-> "USD", bid |-> <<"0", ".", "5">>, timestamp |-> 5],
      [code |-> "USD", codein |-> "USD", bid |-> <<"2">>, timestamp |-> 0],
      [code |-> "USD", codein |-> "EUR", bid |-> <<"a", "b", "c">>, timestamp |-> 9],
      [code |-> "ZZZ", codein |-> "USD", bid |-> <<"-", "1">>, timestamp |-> 0] }

\* entries of a Wise API body: target symbol and rate as sent
WiseItems ==
    { [target |-> "BRL", rate |-> Num(5, 1)],
      [target |-> "EUR", rate |-> StrAbc],
      [target |-> "JPY", rate |-> Undefined],
      [target |-> "ZZZ", rate |-> Num(3, 1)] }

SeqsUpTo(S, n) == UNION {[1..k -> S] : k \in 0..n}

Fetchers == 1..Len(apiFetchers)

\* the parsed bodies fetcher i may receive
Bodies(i) ==
    IF apiFetchers[i] = "awesome" THEN SeqsUpTo(AwesomeItems, MaxItems)
    ELSE SeqsUpTo(WiseItems, MaxItems)

\* env: whether the credential fetcher i requires is set
Envs == [Fetchers -> BOOLEAN]

\* the newest timestamp among the entries of an Awesome body whose bid
\* parses; 0 when there is none.  The code never reads it: it is what the
\* observer notes about the body a request was answered from.
RECURSIVE MaxTimestamp(_)
MaxTimestamp(data) ==
    IF data = <<>> THEN 0
    ELSE LET rest == MaxTimestamp(Tail(data))
             own == IF isNaN(parseFloat(Head(data).bid)) THEN 0
                    ELSE Head(data).timestamp
         IN  IF own > rest THEN own ELSE rest

Stamp(i, data) == IF apiFetchers[i] = "awesome" THEN MaxTimestamp(data) ELSE 0

\* what fetcher i can make of a body: the mapping it builds and the stamp
AwesomeOutcomes ==
    {[rates |-> AwesomeRates(d), stamp |-> MaxTimestamp(d)] :
        d \in SeqsUpTo(AwesomeItems, MaxItems)}

WiseOutcomes ==
    {[rates |-> WiseRates(d), stamp |-> 0] : d \in SeqsUpTo(WiseItems, MaxItems)}

Outcomes(i) == IF apiFetchers[i] = "awesome" THEN AwesomeOutcomes ELSE WiseOutcomes

------------------------------------------------------------------------
\* Responses

NoResponse ==
    [status |-> 0, success |-> FALSE, rates |-> EmptyRates, updated_at |-> 0,
     error |-> "", cacheControl |-> "", allowOrigin |-> ""]

\* JSON.stringify of a rate mapping: a key whose value is undefined is
\* left out, NaN becomes null, everything else is written as it is
StringifyRates(rates) ==
    [k \in {x \in DOMAIN rates : rates[x].t # "undef"} |->
        IF rates[k].t = "nan" THEN Null ELSE rates[k]]

\* as UnavailableResponse, the status left at its default
UnavailableResponse_DefaultStatus ==
    [status |-> 200, success |-> FALSE, rates |-> EmptyRates, updated_at |-> 0,
     error |-> "All primary API sources are unavailable.",
     cacheControl |-> "", allowOrigin |-> "*"]

\* lines 118-121
UnavailableResponse ==
    [status |-> 503, success |-> FALSE, rates |-> EmptyRates, updated_at |-> 0,
     error |-> "All primary API sources are unavailable.",
     cacheControl |-> "", allowOrigin |-> "*"]

\* as SuccessResponse, line 125 left out
SuccessResponse_NoUsd(combinedRates, now) ==
    [status |-> 200, success |-> TRUE,
     rates |-> StringifyRates(combinedRates),
     updated_at |-> now, error |-> "",
     cacheControl |-> "public, max-age=90", allowOrigin |-> "*"]

\* lines 125-139: combinedRates is the adopted mapping, now is
\* Math.floor(Date.now() / 1000)
SuccessResponse(combinedRates, now) ==
    [status |-> 200, success |-> TRUE,
     rates |-> StringifyRates(SetRate(combinedRates, "USD", Num(1, 1))),
     updated_at |-> now, error |-> "",
     cacheControl |-> "public, max-age=90", allowOrigin |-> "*"]

------------------------------------------------------------------------
\* Request state.  pc: idle, match (awaiting cache.match), fetch (awaiting
\* fetcher i), done (a response was returned), threw (the handler rejected).
\* cause[i]: how fetcher i ended; calls[i]: outbound requests it issued;
\* rates: the mapping the last fetcher returned; stamp, now: the observer's
\* notes of that body's newest timestamp and of the clock value read.

NoCause == [i \in Fetchers |-> "none"]

IdleReq ==
    [pc |-> "idle", key |-> "", i |-> 0, cause |-> NoCause,
     calls |-> [i \in Fetchers |-> 0], inFlight |-> 0,
     rates |-> EmptyRates, stamp |-> 0, now |-> 0,
     combinedRates |-> EmptyRates, response |-> NoResponse,
     outcome |-> "none"]

\* deferred[r]: calls counts ctx.waitUntil calls of the request; state is
\* the state of the cache.put it was handed (none, pending, stored, failed)
NoPut == [state |-> "none", key |-> "", entry |-> NoResponse, calls |-> 0]

\* as WaitUntilPut, the write never handed over
WaitUntilPut_Dropped(d, cacheKey, response) == d

\* line 141: ctx.waitUntil(cache.put(cacheKey, response.clone()))
WaitUntilPut(d, cacheKey, response) ==
    [state |-> "pending", key |-> cacheKey, entry |-> response,
     calls |-> d.calls + 1]

IdleProbe == [state |-> "idle", i |-> 0, data |-> <<>>, todo |-> <<>>, rates |-> EmptyRates]

Init ==
    /\ cache = [k \in Keys |-> NoResponse]
    /\ req = [r \in Reqs |-> IdleReq]
    /\ deferred = [r \in Reqs |-> NoPut]
    /\ probe = IdleProbe

\* as Unavailable, the last fetcher's cause put into the error text
Unavailable_LeaksCause(rec) ==
    [rec EXCEPT !.pc = "done", !.i = 0,
                !.response = [UnavailableResponse EXCEPT
                                 !.error = rec.cause[Len(apiFetchers)]],
                !.outcome = "unavailable"]

\* lines 117-122: nothing was adopted, the handler returns 503
Unavailable(rec) ==
    [rec EXCEPT !.pc = "done", !.i = 0, !.response = UnavailableResponse,
                !.outcome = "unavailable"]

\* as RunLoop, giving up after the first fetcher
RECURSIVE RunLoop_NoFallback(_, _, _)
RunLoop_NoFallback(rec, i, env) ==
    IF i > 1 THEN Unavailable(rec)
    ELSE IF ~env[i]
         THEN RunLoop_NoFallback([rec EXCEPT !.cause[i] = "config"], i + 1, env)
         ELSE [rec EXCEPT !.pc = "fetch", !.i = i, !.calls[i] = @ + 1,
                          !.inFlight = @ + 1]

\* as RunLoop, every remaining fetcher started at once
RECURSIVE RunLoop_Parallel(_, _, _)
RunLoop_Parallel(rec, i, env) ==
    IF i > Len(apiFetchers) THEN Unavailable(rec)
    ELSE IF ~env[i]
         THEN RunLoop_Parallel([rec EXCEPT !.cause[i] = "config"], i + 1, env)
         ELSE [rec EXCEPT !.pc = "fetch", !.i = i,
                          !.calls = [j \in Fetchers |->
                                        IF j >= i THEN rec.calls[j] + 1
                                        ELSE rec.calls[j]],
                          !.inFlight = @ + Len(apiFetchers) - i + 1]

\* as RunLoop, the credential looked at only after the request went out
RECURSIVE RunLoop_CallsUnconfigured(_, _, _)
RunLoop_CallsUnconfigured(rec, i, env) ==
    IF i > Len(apiFetchers) THEN Unavailable(rec)
    ELSE IF ~env[i]
         THEN RunLoop_CallsUnconfigured(
                  [rec EXCEPT !.cause[i] = "config", !.calls[i] = @ + 1], i + 1, env)
         ELSE [rec EXCEPT !.pc = "fetch", !.i = i, !.calls[i] = @ + 1,
                          !.inFlight = @ + 1]

\* lines 105-115 from fetcher i on, up to the next await: a fetcher whose
\* credential is missing throws before any network call and the loop goes
\* on; the first configured one issues its request
RECURSIVE RunLoop(_, _, _)
RunLoop(rec, i, env) ==
    IF i > Len(apiFetchers) THEN Unavailable(rec)
    ELSE IF ~env[i]
         THEN RunLoop([rec EXCEPT !.cause[i] = "config"], i + 1, env)
         ELSE [rec EXCEPT !.pc = "fetch", !.i = i, !.calls[i] = @ + 1,
                          !.inFlight = @ + 1]

\* as Adopt, line 110 (break) left out: the loop goes on to the next fetcher
Adopt_NoBreak(rec, i, rates, now) ==
    IF i < Len(apiFetchers)
    THEN [rec EXCEPT !.pc = "fetch", !.i = i + 1, !.cause[i] = "ok",
                     !.combinedRates = rates, !.calls[i + 1] = @ + 1,
                     !.inFlight = @ + 1]
    ELSE [rec EXCEPT !.pc = "done", !.i = 0, !.cause[i] = "ok",
                     !.combinedRates = rates, !.now = now,
                     !.response = SuccessResponse(rates, now), !.outcome = "ok"]

\* lines 108-142: fetcher i returned a non-empty mapping, which is adopted
Adopt(rec, i, rates, now) ==
    [rec EXCEPT !.pc = "done", !.i = 0, !.cause[i] = "ok",
                !.combinedRates = rates, !.now = now,
                !.response = SuccessResponse(rates, now), !.outcome = "ok"]

\* lines 92-96: a request arrives and the handler awaits cache.match
Receive(r, k) ==
    /\ req[r].pc \in {"idle", "done", "threw"}
    /\ deferred[r].state # "pending"
    /\ req' = [req EXCEPT ![r] = [IdleReq EXCEPT !.pc = "match", !.key = k]]
    /\ deferred' = [deferred EXCEPT ![r] = NoPut]
    /\ UNCHANGED <<cache, probe>>

\* as CacheHit, the entry's updated_at brought up to date on the way out
CacheHit_Refreshed(r) ==
    /\ req[r].pc = "match"
    /\ cache[req[r].key] # NoResponse
    /\ req' = [req EXCEPT ![r].pc = "done", ![r].outcome = "hit",
                          ![r].response =
                              [cache[req[r].key] EXCEPT !.updated_at = @ + 1]]
    /\ UNCHANGED <<cache, deferred, probe>>

\* as CacheHit, the fetchers consulted all the same
CacheHit_Refetch(r) ==
    /\ req[r].pc = "match"
    /\ cache[req[r].key] # NoResponse
    /\ req' = [req EXCEPT ![r] = RunLoop(req[r], 1, [i \in Fetchers |-> TRUE])]
    /\ UNCHANGED <<cache, deferred, probe>>

\* lines 96-100: the lookup finds an entry, which is re-emitted
CacheHit(r) ==
    /\ req[r].pc = "match"
    /\ cache[req[r].key] # NoResponse
    /\ req' = [req EXCEPT ![r].pc = "done", ![r].outcome = "hit",
                          ![r].response = cache[req[r].key]]
    /\ UNCHANGED <<cache, deferred, probe>>

\* lines 96-107: the lookup finds nothing and the fallback loop starts
CacheMiss(r, env) ==
    /\ req[r].pc = "match"
    /\ cache[req[r].key] = NoResponse
    /\ req' = [req EXCEPT ![r] = RunLoop(req[r], 1, env)]
    /\ UNCHANGED <<cache, deferred, probe>>

\* line 96: cache.match rejects; nothing catches it and the handler throws
CacheReadError(r) ==
    /\ req[r].pc = "match"
    /\ req' = [req EXCEPT ![r].pc = "threw", ![r].outcome = "threw"]
    /\ UNCHANGED <<cache, deferred, probe>>

\* the ways a fetcher's request fails once issued: "transport", fetch
\* rejects or the status is not 2xx (lines 48-49, 69-72); "parse", the body
\* is not the JSON the loop expects (lines 50-53, 73-77)
FailureCauses == {"transport", "parse"}

\* as FetchFail, the 503 written to the cache like any other response
FetchFail_Caches503(r, c, env) ==
    /\ req[r].pc = "fetch"
    /\ req' = [req EXCEPT ![r] =
                 RunLoop([req[r] EXCEPT !.cause[req[r].i] = c, !.inFlight = @ - 1],
                         req[r].i + 1, env)]
    /\ cache' = IF req'[r].pc = "done"
                THEN [cache EXCEPT ![req[r].key] = req'[r].response]
                ELSE cache
    /\ UNCHANGED <<deferred, probe>>

\* lines 112-114: the fetcher in flight throws, the loop catches it and
\* goes on with the next fetcher
FetchFail(r, c, env) ==
    /\ req[r].pc = "fetch"
    /\ req' = [req EXCEPT ![r] =
                 RunLoop([req[r] EXCEPT !.cause[req[r].i] = c, !.inFlight = @ - 1],
                         req[r].i + 1, env)]
    /\ UNCHANGED <<cache, deferred, probe>>

\* as FetchBody, combinedRates kept at module scope and so seen by every
\* request
FetchBody_SharedRates(r, env, now) ==
    /\ req[r].pc = "fetch"
    /\ \E o \in Outcomes(req[r].i) :
         LET i == req[r].i
             got == [req[r] EXCEPT !.rates = o.rates, !.stamp = o.stamp,
                                   !.inFlight = @ - 1]
         IN  IF KeyCount(o.rates) = 0
             THEN /\ req' = [req EXCEPT ![r] =
                               RunLoop([got EXCEPT !.cause[i] = "empty"], i + 1, env)]
                  /\ UNCHANGED deferred
             ELSE /\ req' = [q \in Reqs |->
                               IF q = r THEN Adopt(got, i, o.rates, now)
                               ELSE [req[q] EXCEPT !.combinedRates = o.rates]]
                  /\ deferred' = [deferred EXCEPT ![r] =
                                    WaitUntilPut(@, req[r].key, req'[r].response)]
    /\ UNCHANGED <<cache, probe>>

\* lines 50-63 / 73-84, 107-142: the fetcher in flight reads a body
FetchBody(r, env, now) ==
    /\ req[r].pc = "fetch"
    /\ \E o \in Outcomes(req[r].i) :
         LET i == req[r].i
             got == [req[r] EXCEPT !.rates = o.rates, !.stamp = o.stamp,
                                   !.inFlight = @ - 1]
         IN  IF KeyCount(o.rates) = 0
             THEN /\ req' = [req EXCEPT ![r] =
                               RunLoop([got EXCEPT !.cause[i] = "empty"], i + 1, env)]
                  /\ UNCHANGED deferred
             ELSE /\ req' = [req EXCEPT ![r] = Adopt(got, i, o.rates, now)]
                  /\ deferred' = [deferred EXCEPT ![r] =
                                    WaitUntilPut(@, req[r].key, req'[r].response)]
    /\ UNCHANGED <<cache, probe>>

\* line 141: the cache.put handed to ctx.waitUntil completes
PutDone(r) ==
    /\ deferred[r].state = "pending"
    /\ cache' = [cache EXCEPT ![deferred[r].key] = deferred[r].entry]
    /\ deferred' = [deferred EXCEPT ![r] =
                      [NoPut EXCEPT !.state = "stored", !.calls = deferred[r].calls]]
    /\ UNCHANGED <<req, probe>>

\* line 141: the cache.put handed to ctx.waitUntil rejects
PutFail(r) ==
    /\ deferred[r].state = "pending"
    /\ deferred' = [deferred EXCEPT ![r] =
                      [NoPut EXCEPT !.state = "failed", !.calls = deferred[r].calls]]
    /\ UNCHANGED <<cache, req, probe>>

\* the cache service drops an entry (max-age=90 has passed)
Expire(k) ==
    /\ cache[k] # NoResponse
    /\ cache' = [cache EXCEPT ![k] = NoResponse]
    /\ UNCHANGED <<req, deferred, probe>>

Next ==
    \/ \E r \in Reqs, k \in Keys : Receive(r, k)
    \/ \E r \in Reqs : CacheHit(r)
    \/ \E r \in Reqs, env \in Envs : CacheMiss(r, env)
    \/ \E r \in Reqs : CacheReadError(r)
    \/ \E r \in Reqs, c \in FailureCauses, env \in Envs : FetchFail(r, c, env)
    \/ \E r \in Reqs, env \in Envs, now \in Times : FetchBody(r, env, now)
    \/ \E r \in Reqs : PutDone(r)
    \/ \E r \in Reqs : PutFail(r)
    \/ \E k \in Keys : Expire(k)

Spec == Init /\ [][Next]_vars

\* Fairness: the cache lookup a request awaits completes (line 96), the
\* fetcher call it awaits completes (line 107), and the runtime runs the
\* write handed to ctx.waitUntil to its end (line 141)

LookupCompletes(r) ==
    \/ CacheHit(r)
    \/ \E env \in Envs : CacheMiss(r, env)
    \/ CacheReadError(r)

FetchCompletes(r) ==
    \/ \E c \in FailureCauses, env \in Envs : FetchFail(r, c, env)
    \/ \E env \in Envs, now \in Times : FetchBody(r, env, now)

WriteCompletes(r) == PutDone(r) \/ PutFail(r)

FairSpec ==
    /\ Spec
    /\ \A r \in Reqs :
          /\ WF_vars(LookupCompletes(r))
          /\ WF_vars(FetchCompletes(r))
          /\ WF_vars(WriteCompletes(r))

------------------------------------------------------------------------
\* One fetcher's normalisation on its own: the loop of lines 53-60 / 77-81
\* over a body, one entry per step, then the check of lines 61-63 / 82-84

AdapterStep(i, rates, item) ==
    IF apiFetchers[i] = "awesome" THEN AwesomeStep(rates, item)
    ELSE WiseStep(rates, item)

AdapterInit ==
    /\ cache = [k \in Keys |-> NoResponse]
    /\ req = [r \in Reqs |-> IdleReq]
    /\ deferred = [r \in Reqs |-> NoPut]
    /\ \E i \in Fetchers : \E d \in Bodies(i) :
          probe = [state |-> "loop", i |-> i, data |-> d, todo |-> d,
                   rates |-> EmptyRates]

\* one iteration of the loop
ProbeItem ==
    /\ probe.state = "loop"
    /\ probe.todo # <<>>
    /\ probe' = [probe EXCEPT !.rates = AdapterStep(probe.i, @, Head(probe.todo)),
                              !.todo = Tail(@)]
    /\ UNCHANGED <<cache, req, deferred>>

\* after the loop: an empty mapping throws, any other is returned
ProbeReturn ==
    /\ probe.state = "loop"
    /\ probe.todo = <<>>
    /\ probe' = [probe EXCEPT !.state =
                    IF KeyCount(probe.rates) = 0 THEN "threw" ELSE "returned"]
    /\ UNCHANGED <<cache, req, deferred>>

AdapterNext == ProbeItem \/ ProbeReturn

AdapterSpec == AdapterInit /\ [][AdapterNext]_vars

------------------------------------------------------------------------
\* Properties

One == Num(1, 1)

\* 1 / v for a nonzero number v
Inverse(v) == Rat(v.d, v.n)

Failed == {"config", "transport", "parse", "empty"}

Returned(r) == req[r].pc = "done"

\* the entry of a direct-pair body decides the key: quote symbol under a
\* USD base, the asset's own symbol otherwise
PairSymbol(item) == IF item.code = "USD" THEN item.codein ELSE item.code

\* entry n of the probed body has a value that reads as a number
Parses(n) ==
    IF apiFetchers[probe.i] = "awesome"
    THEN ~isNaN(parseFloat(probe.data[n].bid))
    ELSE IsNumber(probe.data[n].rate)

EntrySymbol(n) ==
    IF apiFetchers[probe.i] = "awesome" THEN PairSymbol(probe.data[n])
    ELSE probe.data[n].target

\* no later entry of the probed body that parses is for the same symbol
LastParsed(n) ==
    \A m \in (n + 1)..Len(probe.data) :
        Parses(m) => EntrySymbol(m) # EntrySymbol(n)

\* C1: in the mapping the direct-pair adapter returns, a pair whose bid
\* parses as v stands under the quote symbol with value v when its base is
\* USD, and under the asset symbol with value 1/v when its base is an asset.
C1_PairsNormalisedToUnitsPerUsd ==
    (probe.state = "returned" /\ apiFetchers[probe.i] = "awesome") =>
        \A n \in 1..Len(probe.data) :
            LET item == probe.data[n]
                v == parseFloat(item.bid)
            IN  (Parses(n) /\ LastParsed(n) /\ v.n # 0) =>
                    /\ PairSymbol(item) \in DOMAIN probe.rates
                    /\ probe.rates[PairSymbol(item)] =
                          IF item.code = "USD" THEN v ELSE Inverse(v)

\* C2: every successful response, built on a miss or re-emitted from the
\* cache, carries rates.USD = 1 whatever the adopted mapping held.
C2_UsdIsOne ==
    \A r \in Reqs :
        (Returned(r) /\ req[r].response.success) =>
            /\ "USD" \in DOMAIN req[r].response.rates
            /\ req[r].response.rates["USD"] = One

\* one request answered from a mapping that gives USD another value, and
\* another request answered from the cache
C2_Witness ==
    \E r, h \in Reqs :
        /\ Returned(r) /\ req[r].outcome = "ok"
        /\ "USD" \in DOMAIN req[r].rates /\ req[r].rates["USD"] # One
        /\ Returned(h) /\ req[h].outcome = "hit" /\ req[h].response.success

\* C3: once the primary fetcher has returned a non-empty mapping, the
\* request makes no call to the secondary.
C3_SecondaryNotCalled ==
    \A r \in Reqs :
        req[r].cause[1] = "ok" => (req[r].calls[2] = 0 /\ req[r].cause[2] = "none")

C3_Witness ==
    \E r \in Reqs : Returned(r) /\ req[r].cause[1] = "ok" /\ req[r].calls[1] = 1

\* C4: when the primary fails or returns nothing, the secondary is invoked;
\* when the secondary then returns a non-empty mapping, the response's rates
\* are that mapping with USD = 1 and nothing else.
C4_SecondaryAloneAnswers ==
    \A r \in Reqs :
        /\ req[r].cause[1] \in Failed =>
              (req[r].cause[2] # "none" \/ (req[r].pc = "fetch" /\ req[r].i = 2))
        /\ (req[r].cause[1] \in Failed /\ req[r].cause[2] = "ok") =>
              /\ Returned(r) /\ req[r].calls[2] = 1
              /\ req[r].response.success
              /\ DOMAIN req[r].response.rates =
                    {"USD"} \cup {k \in DOMAIN req[r].rates : req[r].rates[k] # Undefined}
              /\ \A k \in DOMAIN req[r].response.rates :
                    req[r].response.rates[k] = IF k = "USD" THEN One ELSE req[r].rates[k]

\* the primary answered with a body that held no valid rate, the secondary
\* with a mapping of a single symbol
C4_Witness ==
    \E r \in Reqs :
        /\ Returned(r) /\ req[r].cause[1] = "empty" /\ req[r].cause[2] = "ok"
        /\ KeyCount(req[r].rates) = 1
        /\ KeyCount(req[r].response.rates) = 2

\* C5: when every fetcher failed or returned nothing, the handler answers
\* 503 with success false and an error text, and hands no cache write over.
C5_ExhaustionIs503Uncached ==
    \A r \in Reqs :
        (Returned(r) /\ \A i \in Fetchers : req[r].cause[i] \in Failed) =>
            /\ req[r].response.status = 503
            /\ ~req[r].response.success
            /\ req[r].response.error # ""
            /\ DOMAIN req[r].response.rates = {}
            /\ deferred[r].calls = 0
            /\ deferred[r].state = "none"

C5_Witness ==
    \E r \in Reqs :
        /\ Returned(r) /\ req[r].outcome = "unavailable"
        /\ req[r].cause[1] = "transport" /\ req[r].cause[2] = "empty"

\* C6: when the lookup of a request finds an entry, the request's next
\* step returns (unless the lookup itself failed), and a request answered
\* from the cache has invoked no fetcher and made no outbound call.
C6_HitReturns ==
    \A r \in Reqs :
        (/\ req[r].pc = "match"
         /\ cache[req[r].key] # NoResponse
         /\ req'[r].pc \notin {"match", "threw"}) =>
            /\ req'[r].pc = "done"
            /\ \A i \in Fetchers : req'[r].calls[i] = 0 /\ req'[r].cause[i] = "none"

C6_NoCalls ==
    \A r \in Reqs :
        (Returned(r) /\ req[r].outcome = "hit") =>
            \A i \in Fetchers : req[r].calls[i] = 0 /\ req[r].cause[i] = "none"

C6_HitCallsNoProvider == [](C6_NoCalls) /\ [][C6_HitReturns]_vars

C6_Witness ==
    \E r \in Reqs :
        Returned(r) /\ req[r].outcome = "hit" /\ req[r].response.status = 200

\* C7: a response built on a miss has updated_at equal to the newest
\* timestamp of the adopted body's parsed pairs when one is nonzero, and to
\* the clock value read otherwise; it is never 0.
C7_UpdatedAtIsNewestTimestamp ==
    \A r \in Reqs :
        (Returned(r) /\ req[r].outcome = "ok") =>
            /\ req[r].response.updated_at =
                  IF req[r].stamp # 0 THEN req[r].stamp ELSE req[r].now
            /\ req[r].response.updated_at # 0

\* C8: for either adapter, an entry whose value does not read as a number
\* is absent from the mapping, the call succeeds as soon as another entry
\* yields a rate, and it fails only with an empty mapping.
C8_UnparsedEntriesDropped ==
    probe.state \in {"returned", "threw"} =>
        /\ \A n \in 1..Len(probe.data) :
              (~Parses(n) /\ \A m \in 1..Len(probe.data) :
                                 Parses(m) => EntrySymbol(m) # EntrySymbol(n))
                  => EntrySymbol(n) \notin DOMAIN probe.rates
        /\ (\E n \in 1..Len(probe.data) :
                Parses(n) /\ EntrySymbol(n) \in DOMAIN probe.rates)
              => probe.state = "returned"
        /\ probe.state = "threw" => KeyCount(probe.rates) = 0

\* C9: a failing cache never fails the request: no request ends with the
\* handler throwing, and a request whose cache write failed has returned
\* its response.
C9_CacheFailuresAbsorbed ==
    \A r \in Reqs :
        /\ req[r].pc # "threw"
        /\ deferred[r].state = "failed" =>
              (Returned(r) /\ req[r].response.status = 200)

\* C10: a request answered from a fetcher has handed its cache write to
\* ctx.waitUntil exactly once by the time it returns, it can have returned
\* while that write is still pending, and a pending write is never dropped:
\* it stays pending until it is stored or fails.
C10_Handed ==
    \A r \in Reqs :
        (Returned(r) /\ req[r].outcome = "ok") =>
            /\ deferred[r].calls = 1
            /\ deferred[r].state \in {"pending", "stored", "failed"}

C10_Kept ==
    \A r \in Reqs :
        deferred[r].state = "pending" =>
            deferred'[r].state \in {"pending", "stored", "failed"}

C10_WriteHandedOnceNotAwaited == [](C10_Handed) /\ [][C10_Kept]_vars

\* the response is returned and its write has not completed
C10_Witness ==
    \E r \in Reqs :
        Returned(r) /\ req[r].outcome = "ok" /\ deferred[r].state = "pending"

Configured == FIAT_SYMBOLS \cup ASSET_SYMBOLS

\* C11: every value in the rates of a successful response is a number
\* greater than 0, whatever the provider sent.
C11_RatesArePositiveNumbers ==
    \A r \in Reqs :
        (Returned(r) /\ req[r].response.success) =>
            \A k \in DOMAIN req[r].response.rates :
                /\ IsNumber(req[r].response.rates[k])
                /\ req[r].response.rates[k].n > 0

\* C12: a fetcher whose credential is absent ends with a configuration
\* error without any outbound call, and the loop goes on: the next fetcher
\* is invoked, or, after the last one, the request is answered 503.
C12_MissingCredentialSkipsCall ==
    \A r \in Reqs : \A i \in Fetchers :
        req[r].cause[i] = "config" =>
            /\ req[r].calls[i] = 0
            /\ IF i < Len(apiFetchers)
               THEN \/ req[r].cause[i + 1] # "none"
                    \/ (req[r].pc = "fetch" /\ req[r].i = i + 1)
               ELSE Returned(r) /\ req[r].response.status = 503

\* the primary lacks its credential and the secondary answers
C12_Witness ==
    \E r \in Reqs :
        /\ Returned(r) /\ req[r].cause[1] = "config" /\ req[r].cause[2] = "ok"
        /\ req[r].calls = <<0, 1>>

\* C13: every response the handler returns has status 200 or 503, 200
\* exactly with success true and 503 exactly with success false.
C13_StatusIs200Or503 ==
    \A r \in Reqs :
        Returned(r) =>
            /\ req[r].response.status \in {200, 503}
            /\ (req[r].response.status = 200) <=> req[r].response.success
            /\ (req[r].response.status = 503) <=> ~req[r].response.success

\* one request answered from the cache while another is answered 503
C13_Witness ==
    \E r, h \in Reqs :
        /\ Returned(r) /\ req[r].outcome = "unavailable"
        /\ Returned(h) /\ req[h].outcome = "hit"

\* request r has returned after every fetcher failed or returned nothing
Exhausted(r) == Returned(r) /\ \A i \in Fetchers : req[r].cause[i] \in Failed

\* C14: two requests that both exhaust the fetchers get the same 503
\* response, whatever made each fetcher fail, and its error is the
\* handler's own text.
C14_FailureBodyIndependentOfCauses ==
    \A r, q \in Reqs :
        (Exhausted(r) /\ Exhausted(q)) =>
            /\ req[r].response = req[q].response
            /\ req[r].response.error = "All primary API sources are unavailable."
            /\ req[r].response.error \notin Failed

\* two exhausted requests whose fetchers failed for different reasons
C14_Witness ==
    \E r, q \in Reqs :
        /\ Exhausted(r) /\ Exhausted(q)
        /\ req[r].cause = <<"config", "empty">>
        /\ req[q].cause = <<"transport", "parse">>

\* C15: a hit returns the entry the cache holds, as it is, and the cache
\* holds an entry as the request that stored it returned it: the write a
\* request handed over carries that request's own response, a completed
\* write stores it unchanged, and the lookup re-emits what is stored.
C15_WriteCarriesResponse ==
    \A r \in Reqs :
        deferred[r].state = "pending" =>
            /\ Returned(r) /\ req[r].outcome = "ok"
            /\ deferred[r].entry = req[r].response
            /\ deferred[r].key = req[r].key

C15_StoredAsHanded ==
    \A r \in Reqs :
        (deferred[r].state = "pending" /\ deferred'[r].state = "stored") =>
            cache'[deferred[r].key] = deferred[r].entry

C15_HitReemits ==
    \A r \in Reqs :
        (/\ req[r].pc = "match"
         /\ cache[req[r].key] # NoResponse
         /\ req'[r].pc = "done") =>
            req'[r].response = cache[req[r].key]

C15_HitReturnsStoredEntry ==
    /\ [](C15_WriteCarriesResponse)
    /\ [][C15_StoredAsHanded /\ C15_HitReemits]_vars

\* a request answered from the cache with the very response, updated_at
\* included, that the other request returned and stored
C15_Witness ==
    \E r, h \in Reqs :
        /\ Returned(r) /\ req[r].outcome = "ok" /\ deferred[r].state = "stored"
        /\ Returned(h) /\ req[h].outcome = "hit"
        /\ req[h].response = req[r].response
        /\ req[h].response.updated_at = req[r].now

\* C16: within a request the fetchers run one after the other in declared
\* order: at most one call is in flight, each fetcher issues at most one
\* call, and a fetcher is reached only after every earlier one has failed
\* or returned nothing.
C16_SequentialInOrder ==
    \A r \in Reqs :
        /\ req[r].inFlight <= 1
        /\ (req[r].pc = "fetch") <=> (req[r].inFlight = 1)
        /\ \A i \in Fetchers :
              /\ req[r].calls[i] <= 1
              /\ (req[r].cause[i] # "none" \/ req[r].calls[i] > 0) =>
                    \A j \in 1..(i - 1) : req[r].cause[j] \in Failed
        /\ req[r].pc = "fetch" =>
              /\ req[r].calls[req[r].i] = 1
              /\ req[r].cause[req[r].i] = "none"
              /\ \A j \in (req[r].i + 1)..Len(apiFetchers) :
                    req[r].calls[j] = 0 /\ req[r].cause[j] = "none"

\* the secondary's call is in flight after the primary's call failed
C16_Witness ==
    \E r \in Reqs :
        /\ req[r].pc = "fetch" /\ req[r].i = 2 /\ req[r].inFlight = 1
        /\ req[r].cause[1] = "transport" /\ req[r].calls = <<1, 1>>

\* C17: when the lookup and every fetcher call complete, a request that
\* was received ends in one of the three outcomes: answered from the cache,
\* answered 200 from a fetcher, answered 503.
C17_RequestReachesOutcome ==
    \A r \in Reqs :
        (req[r].pc = "match") ~>
            (Returned(r) /\ req[r].outcome \in {"hit", "ok", "unavailable"})

\* C18: the cache only ever holds successful responses (success, 200,
\* USD = 1, Cache-Control public max-age=90); a request that ends in 503
\* changes neither the cache nor any pending write; and a request whose
\* lookup finds no entry goes on to the fetchers.
C18_CacheHoldsSuccess ==
    \A k \in Keys :
        cache[k] # NoResponse =>
            /\ cache[k].success /\ cache[k].status = 200
            /\ "USD" \in DOMAIN cache[k].rates /\ cache[k].rates["USD"] = One
            /\ cache[k].cacheControl = "public, max-age=90"

C18_FailureLeavesCache ==
    \A r \in Reqs :
        (~Returned(r) /\ req'[r].pc = "done" /\ req'[r].response.status = 503) =>
            (cache' = cache /\ deferred' = deferred)

C18_MissRetries ==
    \A r \in Reqs :
        (/\ req[r].pc = "match"
         /\ cache[req[r].key] = NoResponse
         /\ req'[r].pc \in {"fetch", "done"}) =>
            \E i \in Fetchers : req'[r].cause[i] # "none" \/ req'[r].calls[i] > 0

C18_FailuresNeverCached ==
    /\ [](C18_CacheHoldsSuccess)
    /\ [][C18_FailureLeavesCache /\ C18_MissRetries]_vars

\* a request answered 503 while the cache holds the
\* entry another request stored
C18_Witness ==
    \E r, q \in Reqs :
        /\ Returned(r) /\ req[r].response.status = 503
        /\ Returned(q) /\ req[q].outcome = "ok" /\ deferred[q].state = "stored"
        /\ cache[req[r].key] = req[q].response

\* the rates of response resp are the mapping m with USD = 1, as written
\* by JSON.stringify
AnswersFrom(resp, m) ==
    /\ DOMAIN resp.rates = {"USD"} \cup {k \in DOMAIN m : m[k] # Undefined}
    /\ \A k \in DOMAIN resp.rates :
          resp.rates[k] = IF k = "USD" THEN One ELSE m[k]

\* C19: requests share nothing but the cache: a response built on a miss
\* carries the mapping one fetcher returned to that same request, from the
\* single call that request made to it, and a step of one request leaves
\* every other request's state as it was.
C19_OwnMapping ==
    \A r \in Reqs :
        (Returned(r) /\ req[r].outcome = "ok") =>
            /\ \E i \in Fetchers :
                  /\ req[r].cause[i] = "ok" /\ req[r].calls[i] = 1
                  /\ \E o \in Outcomes(i) : o.rates = req[r].rates
                  /\ \A j \in Fetchers \ {i} : req[r].cause[j] # "ok"
            /\ req[r].combinedRates = req[r].rates
            /\ AnswersFrom(req[r].response, req[r].rates)

C19_OthersUntouched ==
    \A r, q \in Reqs :
        (r # q /\ req'[q] # req[q]) => req'[r] = req[r]

C19_RequestsShareOnlyCache ==
    [](C19_OwnMapping) /\ [][C19_OthersUntouched]_vars

\* two requests that overlapped, each answered from its own fetcher's
\* mapping, the two mappings differing
C19_Witness ==
    \E r, q \in Reqs :
        /\ Returned(r) /\ req[r].outcome = "ok" /\ req[r].cause[1] = "ok"
        /\ Returned(q) /\ req[q].outcome = "ok" /\ req[q].cause[2] = "ok"
        /\ req[r].rates # req[q].rates
        /\ req[r].response.rates # req[q].response.rates

\* C20: every key of a successful response's rates is USD or one of the
\* configured fiat or asset symbols, whatever the provider sent.
C20_KeysAreConfiguredSymbols ==
    \A r \in Reqs :
        (Returned(r) /\ req[r].response.success) =>
            DOMAIN req[r].response.rates \subseteq ({"USD"} \cup Configured)

====
